---- MODULE Spec2Model ----
(***************************************************************************)
(* Model of the ODIM polar-volume normaliser fix_odim_vol2bird_strict.py   *)
(* (one _process invocation over one source volume) and of the helpers it  *)
(* is built from.  Physical values are exact integers in thousandths       *)
(* (milli-units); gains are rationals <<numerator, denominator>>.          *)
(***************************************************************************)
EXTENDS Integers, Sequences, FiniteSets, TLC

\* Bounds of the model.
MaxScans == 3          \* source scan indices range over 1..MaxScans
MaxDim == 2            \* array axes and declared ray/bin counts range over 1..MaxDim
CodecWindow == 40      \* physical values are sampled this far around each end and the middle of a range
MaxNest == 3           \* depth of group nesting in a time-slot group of the aggregated file

VARIABLES
  out_dual,   \* the full output of build_outputs, once its first pass has returned
  prog,       \* which program runs
  src,        \* the source container (read-only)
  keep_dual,  \* polarization mode of the invocation
  pc,         \* position of the invocation
  handles,    \* container handles currently open
  dst,        \* the destination container written so far
  idx,        \* loop variable of the dataset loop
  loc,        \* locals date, time, nyq
  err,        \* exception that ended the invocation ("" if none)
  call,       \* arguments of a pure-function call
  ret         \* its result

vars == <<out_dual, prog, src, keep_dual, pc, handles, dst, idx, loc, err, call, ret>>

NoAttrs == [k \in {} |-> 0]

Get(attrs, k, default) == IF k \in DOMAIN attrs THEN attrs[k] ELSE default

-----------------------------------------------------------------------------
\* Arrays: a 2-D array is a sequence of rows.

Shape(m) == <<Len(m), IF Len(m) = 0 THEN 0 ELSE Len(m[1])>>

Transpose(m) ==
  [j \in 1..Shape(m)[2] |-> [i \in 1..Shape(m)[1] |-> m[i][j]]]

\* np.repeat(m, n, axis=1): every column repeated n times in place.
RepeatAxis1(m, n) ==
  [i \in 1..Shape(m)[1] |-> [k \in 1..(Shape(m)[2] * n) |-> m[i][((k - 1) \div n) + 1]]]

\* np.repeat(m, n, axis=0): every row repeated n times in place.
RepeatAxis0(m, n) ==
  [k \in 1..(Shape(m)[1] * n) |-> m[((k - 1) \div n) + 1]]

MapArray(m, F(_)) == [i \in 1..Len(m) |-> [j \in 1..Len(m[i]) |-> F(m[i][j])]]

\* ensure_shape without the transposition of a bins x rays array.
ensure_shape_notranspose(arr, nrays, nbins) ==
  IF Shape(arr) = <<nrays, 1>> THEN RepeatAxis1(arr, nbins)
  ELSE IF Shape(arr) = <<1, nrays>> THEN Transpose(RepeatAxis0(arr, nbins))
  ELSE arr

ensure_shape(arr, nrays, nbins) ==
  IF Shape(arr) = <<nbins, nrays>> THEN Transpose(arr)
  ELSE IF Shape(arr) = <<nrays, 1>> THEN RepeatAxis1(arr, nbins)
  ELSE IF Shape(arr) = <<1, nrays>> THEN Transpose(RepeatAxis0(arr, nbins))
  ELSE arr

-----------------------------------------------------------------------------
\* Scalar codec.

\* One physical unit in model units (values are kept in thousandths).
Milli == 10 * 10 * 10

\* np.rint of num/den (den > 0): round half to even.
RInt(num, den) ==
  LET q == num \div den
      r == num % den
  IN IF 2 * r < den THEN q
     ELSE IF 2 * r > den THEN q + 1
     ELSE IF q % 2 = 0 THEN q ELSE q + 1

Clip(v, lo, hi) == IF v < lo THEN lo ELSE IF v > hi THEN hi ELSE v

U16Max == 65535
I16Min == -32768
I16Max == 32767

\* what_grp holds gain and offset in milli-units; the result is in milli-units.
decode(arr, what_grp) ==
  LET g == Get(what_grp, "gain", Milli)
      o == Get(what_grp, "offset", 0)
  IN IF g = Milli /\ o = 0
     THEN MapArray(arr, LAMBDA c : c * Milli)
     ELSE MapArray(arr, LAMBDA c : c * g + o)

\* encode_uint16 that does not subtract the offset.
encode_uint16_nooffset(decoded, gain, offset) ==
  MapArray(decoded, LAMBDA v : Clip(RInt(v * gain[2], Milli * gain[1]), 0, U16Max))

\* decoded in milli-units, gain = <<n, d>>, offset in milli-units.
encode_uint16(decoded, gain, offset) ==
  MapArray(decoded, LAMBDA v : Clip(RInt((v - offset) * gain[2], Milli * gain[1]), 0, U16Max))

encode_int16(decoded, gain, offset) ==
  MapArray(decoded, LAMBDA v : Clip(RInt((v - offset) * gain[2], Milli * gain[1]), I16Min, I16Max))

-----------------------------------------------------------------------------
\* Metadata normalisation.

HasGroup(g, name) == name \in g.groups

\* lat, lon, height of the source root where (0 when absent).
root_latlonheight(s) ==
  IF HasGroup(s, "where")
  THEN [lat |-> Get(s.where, "lat", 0), lon |-> Get(s.where, "lon", 0),
        height |-> Get(s.where, "height", 0)]
  ELSE [lat |-> 0, lon |-> 0, height |-> 0]

EpochDate == "19700101"
EpochTime == "000000"

\* An optional string is <<>> (None) or <<s>>.
Truthy(o) == o # <<>>
OrElse(o, d) == IF o # <<>> THEN o[1] ELSE d

\* Result: [err, date, time]; err = "KeyError" when dataset1 has no what group.
derive_dt(s) ==
  LET date0 == IF HasGroup(s, "what") /\ "date" \in DOMAIN s.what THEN <<s.what.date>> ELSE <<>>
      time0 == IF HasGroup(s, "what") /\ "time" \in DOMAIN s.what THEN <<s.what.time>> ELSE <<>>
      useDs1 == (~Truthy(date0) \/ ~Truthy(time0)) /\ 1 \in DOMAIN s.scans
  IN IF useDs1 /\ ~HasGroup(s.scans[1], "what")
     THEN [err |-> "KeyError", date |-> "", time |-> ""]
     ELSE LET ww == s.scans[1].what
              date1 == IF useDs1 THEN <<Get(ww, "date", OrElse(date0, EpochDate))>> ELSE date0
              time1 == IF useDs1 THEN <<Get(ww, "time", OrElse(time0, EpochTime))>> ELSE time0
          IN [err |-> "", date |-> OrElse(date1, EpochDate), time |-> OrElse(time1, EpochTime)]

dataset_start_end(src_ds_what, fallback_date, fallback_time) ==
  LET sd == Get(src_ds_what, "startdate", fallback_date)
      st == Get(src_ds_what, "starttime", fallback_time)
  IN [sd |-> sd, st |-> st,
      ed |-> Get(src_ds_what, "enddate", sd), et |-> Get(src_ds_what, "endtime", st)]

\* The what attributes of an output scan (lines 213-223).
scan_what(src_w, date, time) ==
  LET d_date == Get(src_w, "date", date)
      d_time == Get(src_w, "time", time)
      se == dataset_start_end(src_w, d_date, d_time)
  IN [object |-> "SCAN", product |-> "SCAN", date |-> d_date, time |-> d_time,
      startdate |-> se.sd, starttime |-> se.st, enddate |-> se.ed, endtime |-> se.et]

IntKeys == {"nbins", "nrays", "a1gate"}
FloatKeys == {"rscale", "rstart", "elangle", "startaz", "stopaz"}

\* A guess is <<>> (None) or <<n>>.
ensure_ds_where(src_where, nrays_guess, nbins_guess) ==
  [k \in IntKeys \cup FloatKeys |->
     IF k \in DOMAIN src_where THEN src_where[k]
     ELSE IF k = "nbins" /\ nbins_guess # <<>> THEN nbins_guess[1]
     ELSE IF k = "nrays" /\ nrays_guess # <<>> THEN nrays_guess[1]
     ELSE 0]

RayLens == {360, 361}

\* Lines 234-239: <<nr_guess, nb_guess>> from the raw shape <<a, b>>.
guess_dims(shape) ==
  LET a == shape[1]
      b == shape[2]
  IN IF a \in RayLens \/ a < b THEN <<a, b>> ELSE <<b, a>>

SrcSlots == <<"data1", "data5", "data8", "data9", "data10">>

\* has_field without the test for the data array.
has_field_any(sds, cand) == cand \in DOMAIN sds.fields

has_field(sds, cand) == cand \in DOMAIN sds.fields /\ sds.fields[cand].hasData

\* Lines 228-240: the first present candidate decides; <<>> when none is present.
RECURSIVE first_present(_, _)
first_present(sds, k) ==
  IF k > Len(SrcSlots) THEN <<>>
  ELSE IF has_field(sds, SrcSlots[k]) THEN <<SrcSlots[k]>>
  ELSE first_present(sds, k + 1)

guess_of(sds) ==
  LET c == first_present(sds, 1)
  IN IF c = <<>> THEN <<>> ELSE guess_dims(Shape(sds.fields[c[1]].data))

write_field(qty, data, dtype, gain, offset, nodata, undetect) ==
  [quantity |-> qty, gain |-> gain, offset |-> offset, nodata |-> nodata,
   undetect |-> undetect, dtype |-> dtype, data |-> data]

-----------------------------------------------------------------------------
\* Volume transcoder: one scan (lines 206-307).

\* The five source moments in processing order, with the fixed output
\* encoding of each (lines 264-299) and the slot of its duplicate.
Fields == <<
  [src |-> "data1", qty |-> "DBZH", dtype |-> "uint16", gain |-> <<1, 10>>, offset |-> 0,
   nodata |-> 65535, undetect |-> 0, pre |-> "none", dual |-> FALSE, dup |-> ""],
  [src |-> "data5", qty |-> "VRADH", dtype |-> "int16", gain |-> <<1, 1>>, offset |-> 0,
   nodata |-> -32768, undetect |-> -32768, pre |-> "none", dual |-> FALSE, dup |-> "data2"],
  [src |-> "data8", qty |-> "ZDR", dtype |-> "uint16", gain |-> <<1, 100>>, offset |-> -100000,
   nodata |-> 65535, undetect |-> 0, pre |-> "none", dual |-> TRUE, dup |-> "data4"],
  [src |-> "data9", qty |-> "RHOHV", dtype |-> "uint16", gain |-> <<1, 4095>>, offset |-> 0,
   nodata |-> 65535, undetect |-> 0, pre |-> "clip01", dual |-> TRUE, dup |-> "data3"],
  [src |-> "data10", qty |-> "PHIDP", dtype |-> "uint16", gain |-> <<1, 100>>, offset |-> 0,
   nodata |-> 65535, undetect |-> 0, pre |-> "mod360", dual |-> TRUE, dup |-> "data6"] >>

\* field_enabled without the keep_dual guard.
field_enabled_always(f, kd) == TRUE

\* Whether the block of field f runs at all in this mode (the keep_dual guards).
field_enabled(f, kd) == ~f.dual \/ kd

\* np.clip(dec, 0.0, 1.0) for RHOHV, np.mod(dec, 360.0) for PHIDP.
pre_encode(f, dec) ==
  IF f.pre = "clip01" THEN MapArray(dec, LAMBDA v : Clip(v, 0, Milli))
  ELSE IF f.pre = "mod360" THEN MapArray(dec, LAMBDA v : v % (360 * Milli))
  ELSE dec

encode_field(f, dec) ==
  IF f.dtype = "int16" THEN encode_int16(dec, f.gain, f.offset)
  ELSE encode_uint16(dec, f.gain, f.offset)

field_slot(f, enc) == write_field(f.qty, enc, f.dtype, f.gain, f.offset, f.nodata, f.undetect)

NoSlots == [k \in {} |-> 0]

\* primary_writes without the data2 duplicate.
primary_writes_nodup(f, enc) == (f.src :> field_slot(f, enc))

\* The slots written by the block of field f: the primary, and for VRADH the
\* data2 duplicate written in the same block (line 279).
primary_writes(f, enc) ==
  IF f.src = "data5" THEN (f.src :> field_slot(f, enc)) @@ (f.dup :> field_slot(f, enc))
  ELSE (f.src :> field_slot(f, enc))

\* The field blocks from the k-th on.  acc = [err, slots, encs]; encs holds the
\* locals vr_enc, zdr_enc, rho_enc, ph_enc that are not None.  bad names the
\* slot whose array cannot be read ("none": every read succeeds).
RECURSIVE do_fields(_, _, _, _, _, _, _)
do_fields(k, sds, nrays, nbins, kd, bad, acc) ==
  IF k > Len(Fields) \/ acc.err # "" THEN acc
  ELSE LET f == Fields[k] IN
    IF ~(field_enabled(f, kd) /\ has_field(sds, f.src))
    THEN do_fields(k + 1, sds, nrays, nbins, kd, bad, acc)
    ELSE IF bad = f.src THEN [acc EXCEPT !.err = "OSError"]
    ELSE IF ~sds.fields[f.src].hasWhat THEN [acc EXCEPT !.err = "KeyError"]
    ELSE LET a == ensure_shape(sds.fields[f.src].data, nrays, nbins)
             dec == pre_encode(f, decode(a, sds.fields[f.src].what))
             enc == encode_field(f, dec)
         IN do_fields(k + 1, sds, nrays, nbins, kd, bad,
                [acc EXCEPT !.slots = primary_writes(f, enc) @@ @,
                            !.encs = (f.src :> enc) @@ @])

\* Lines 301-307: the classic duplicates of the dual-pol fields.
RECURSIVE classic_duplicates(_, _, _)
classic_duplicates(k, kd, encs) ==
  IF k > Len(Fields) THEN NoSlots
  ELSE LET f == Fields[k]
           rest == classic_duplicates(k + 1, kd, encs)
       IN IF f.dual /\ kd /\ f.src \in DOMAIN encs
          THEN (f.dup :> field_slot(f, encs[f.src])) @@ rest
          ELSE rest

\* The output scan group while nothing of it is written yet.
EmptyScan ==
  [groups |-> {}, what |-> NoAttrs, where |-> NoAttrs, azimuth |-> <<>>,
   how |-> NoAttrs, slots |-> NoSlots]

\* scan_how that takes the scan's own NI in dual-pol mode only.
scan_how_mode(sds, nyq, kd) ==
  [NI |-> IF kd /\ HasGroup(sds, "how") /\ "NI" \in DOMAIN sds.how THEN sds.how.NI ELSE nyq,
   polarization |-> IF kd THEN "dualpol" ELSE "singlepol"]

\* Lines 249-260: the scan's own NI when it has one, else the root Nyquist.
scan_how(sds, nyq, kd) ==
  [NI |-> IF HasGroup(sds, "how") /\ "NI" \in DOMAIN sds.how THEN sds.how.NI ELSE nyq,
   polarization |-> IF kd THEN "dualpol" ELSE "singlepol"]

\* One iteration of the dataset loop: [err, scan], scan being what the
\* destination holds of datasetN when the iteration ends or raises.
process_scan(sds, date, time, nyq, kd, bad) ==
  IF ~HasGroup(sds, "what")
  THEN [err |-> "KeyError", scan |-> [EmptyScan EXCEPT !.groups = {"what"}]]
  ELSE LET w == scan_what(sds.what, date, time) IN
  IF ~HasGroup(sds, "where")
  THEN [err |-> "KeyError", scan |-> [EmptyScan EXCEPT !.groups = {"what", "where"}, !.what = w]]
  ELSE LET g == guess_of(sds)
           wr == ensure_ds_where(sds.where, IF g = <<>> THEN <<>> ELSE <<g[1]>>,
                                 IF g = <<>> THEN <<>> ELSE <<g[2]>>)
           base == [groups |-> {"what", "where", "how"}, what |-> w, where |-> wr,
                    azimuth |-> sds.azimuth, how |-> scan_how(sds, nyq, kd),
                    slots |-> NoSlots]
           acc == do_fields(1, sds, wr["nrays"], wr["nbins"], kd, bad,
                            [err |-> "", slots |-> NoSlots, encs |-> NoSlots])
       IN IF acc.err # ""
          THEN [err |-> acc.err, scan |-> [base EXCEPT !.slots = acc.slots]]
          ELSE [err |-> "",
                scan |-> [base EXCEPT !.slots = acc.slots @@ classic_duplicates(1, kd, acc.encs)]]

-----------------------------------------------------------------------------
\* Source volumes the invocation is run on.

Dims == 1..MaxDim
Shapes == Dims \X Dims
ScanIdx == 1..MaxScans

\* A raw code array of the given shape with pairwise different cells.
Ramp(shape, base) ==
  [i \in 1..shape[1] |-> [j \in 1..shape[2] |-> base + (i - 1) * shape[2] + j]]

\* The moment group of a slot: its data array (if any) and its what group (if any).
Moment(hasData, data, hasWhat, what) ==
  [hasData |-> hasData, data |-> data, hasWhat |-> hasWhat, what |-> what]

SlotBase(slot) ==
  CASE slot = "data1" -> 10 [] slot = "data5" -> -3 [] slot = "data8" -> 40
    [] slot = "data9" -> -1 [] OTHER -> 36000

\* Source gain/offset (milli-units) of a moment; data5 relies on the defaults.
SlotWhat(slot) ==
  CASE slot = "data1" -> [gain |-> 500, offset |-> -2000]
    [] slot = "data5" -> NoAttrs
    [] slot = "data8" -> [gain |-> 10, offset |-> -100000]
    [] slot = "data9" -> [gain |-> 250]
    [] OTHER -> [gain |-> 10, offset |-> 0]

OkMoment(slot, shape) == Moment(TRUE, Ramp(shape, SlotBase(slot)), TRUE, SlotWhat(slot))
NoWhatMoment(slot, shape) == Moment(TRUE, Ramp(shape, SlotBase(slot)), FALSE, NoAttrs)
NoDataMoment(slot) == Moment(FALSE, <<>>, TRUE, SlotWhat(slot))

SlotSet == {SrcSlots[k] : k \in 1..Len(SrcSlots)}

\* opt is <<>> for an absent group and <<attrs>> for a present one.
MkScan(whatOpt, whereOpt, howOpt, fields) ==
  [groups |-> (IF whatOpt # <<>> THEN {"what"} ELSE {})
                \cup (IF whereOpt # <<>> THEN {"where"} ELSE {})
                \cup (IF howOpt # <<>> THEN {"how"} ELSE {}),
   what |-> IF whatOpt # <<>> THEN whatOpt[1] ELSE NoAttrs,
   where |-> IF whereOpt # <<>> THEN whereOpt[1] ELSE NoAttrs,
   azimuth |-> <<>>,
   how |-> IF howOpt # <<>> THEN howOpt[1] ELSE NoAttrs,
   fields |-> fields]

RootDate == "20200101"
RootTime == "120000"
ScanDate == "20200102"
ScanTime == "130000"

NomShape == <<1, 2>>
NomScanWhat == [date |-> ScanDate, time |-> ScanTime]
NomScanHow == [NI |-> 16]
NomFields == [sl \in {"data1", "data5"} |-> OkMoment(sl, NomShape)]
NomScan == MkScan(<<NomScanWhat>>, <<NoAttrs>>, <<NomScanHow>>, NomFields)

\* Where attributes declaring any subset of nrays, nbins.
WhereAttrs ==
  { [k \in K |-> f[k]] : K \in SUBSET {"nrays", "nbins"}, f \in [{"nrays", "nbins"} -> Dims] }

\* Scans whose metadata groups vary.
MetaScans ==
  { MkScan(w, wh, h, NomFields) :
      w \in {<<>>, <<NoAttrs>>, <<NomScanWhat>>, <<[date |-> ScanDate, enddate |-> RootDate]>>},
      wh \in {<<>>, <<NoAttrs>>, <<[a1gate |-> 3, elangle |-> 500]>>},
      h \in {<<>>, <<NoAttrs>>, <<NomScanHow>>} }

\* Scans whose moment groups vary: every slot absent, without data, without
\* what, or complete.
MomentStates == {"absent", "nodata", "nowhat", "ok"}

MomentScans ==
  { MkScan(<<NomScanWhat>>, <<NoAttrs>>, <<NomScanHow>>,
           [sl \in {t \in SlotSet : st[t] # "absent"} |->
              IF st[sl] = "nodata" THEN NoDataMoment(sl)
              ELSE IF st[sl] = "nowhat" THEN NoWhatMoment(sl, NomShape)
              ELSE OkMoment(sl, NomShape)]) :
      st \in [SlotSet -> MomentStates] }

\* Scans whose geometry varies: declared counts and raw array shapes; the
\* second and third field have the first one's shape, its transpose or a
\* one-column profile of it.
ShapesNear(sh) == {sh, <<sh[2], sh[1]>>, <<sh[1], 1>>}

GeomScans ==
  { MkScan(<<NomScanWhat>>, <<wa>>, <<NomScanHow>>,
           ("data1" :> OkMoment("data1", sh[1])) @@ ("data5" :> OkMoment("data5", sh[2]))
             @@ ("data9" :> OkMoment("data9", sh[2]))) :
      wa \in WhereAttrs, sh \in {t \in Shapes \X Shapes : t[2] \in ShapesNear(t[1])} }

IrregularScans == MetaScans \cup MomentScans \cup GeomScans
PlainScans == {NomScan, MkScan(<<>>, <<NoAttrs>>, <<>>, NomFields),
               MkScan(<<[date |-> ScanDate]>>, <<NoAttrs>>, <<>>, NomFields)}

MkVolume(whatOpt, whereOpt, howOpt, scans) ==
  [groups |-> (IF whatOpt # <<>> THEN {"what"} ELSE {})
                \cup (IF whereOpt # <<>> THEN {"where"} ELSE {})
                \cup (IF howOpt # <<>> THEN {"how"} ELSE {}),
   what |-> IF whatOpt # <<>> THEN whatOpt[1] ELSE NoAttrs,
   where |-> IF whereOpt # <<>> THEN whereOpt[1] ELSE NoAttrs,
   how |-> IF howOpt # <<>> THEN howOpt[1] ELSE NoAttrs,
   scans |-> scans]

RootWhats ==
  {<<>>, <<NoAttrs>>, <<[date |-> RootDate]>>, <<[time |-> RootTime]>>,
   <<[date |-> RootDate, time |-> RootTime]>>}
NomRootWhat == [date |-> RootDate, time |-> RootTime]
NomRootWhere == [lat |-> 515000, lon |-> -1250, height |-> 90]
NomRootHow == [nyquist_velocity |-> 8]

\* Partial functions from ScanIdx into a set of scans.
ScanMaps(S) == UNION { [K -> S] : K \in SUBSET ScanIdx }

\* Volumes whose root metadata varies, over plain scans.
RootVolumes ==
  { MkVolume(w, wh, h, sc) :
      w \in RootWhats, wh \in {<<>>, <<NomRootWhere>>},
      h \in {<<>>, <<NomRootHow>>}, sc \in ScanMaps(PlainScans) }

\* Volumes with a nominal root and one irregular scan: nominal scans before
\* it and at most one nominal scan after it.
ScanVolumes ==
  { MkVolume(<<NomRootWhat>>, <<NomRootWhere>>, <<NomRootHow>>,
             [i \in {j \in ScanIdx : j <= p + after} |-> IF i = p THEN irr ELSE NomScan]) :
      p \in ScanIdx, irr \in IrregularScans, after \in {0, 1} }

SourceVolumes == RootVolumes \cup ScanVolumes

-----------------------------------------------------------------------------
\* Volume transcoder: the invocation _process(in_path, out_path, keep_dual, ...).

NyquistDefault == 32
RadCode == "NIMROD05"
NodCode == "NIMROD05"

\* A coordinate in 1/10000 degree printed with three decimals ("{lat:.3f}").
Fmt3(x) == RInt(x, 10)

EmptyFile == [groups |-> {}, where |-> NoAttrs, what |-> NoAttrs, how |-> NoAttrs,
              scans |-> NoSlots]

NoLocals == [date |-> "", time |-> "", nyq |-> 0]

\* close_on_exit that releases the destination only.
close_on_exit_leak(h) == h \ {"dst"}

\* Leaving the with block, normally or by an exception, closes its handles.
close_on_exit(h) == {}

\* next_idx stepping over an index.
next_idx_skip(i) == i + 2

\* The next value of the loop variable (line 309).
next_idx(i) == i + 1

\* Lines 193-199.
root_nyquist(s) ==
  IF HasGroup(s, "how") /\ "nyquist_velocity" \in DOMAIN s.how
  THEN s.how.nyquist_velocity ELSE NyquistDefault

root_what(date, time, ll) ==
  [object |-> "PVOL", version |-> "H5rad 2.2", date |-> date, time |-> time,
   source |-> <<"RAD", RadCode, "PLC", Fmt3(ll.lat), Fmt3(ll.lon), "NOD", NodCode>>,
   Conventions |-> "ODIM_H5/V2_2"]

\* The programs that run _process.
Transcoders == {"transcode", "build_outputs"}

Raise(e) ==
  /\ pc' = "failed"
  /\ err' = e
  /\ handles' = close_on_exit(handles)

\* h5py.File(in_path, "r"): the source opens or the open raises.
OpenSrc ==
  /\ prog \in Transcoders /\ pc = "start"
  /\ \E ok \in BOOLEAN :
       IF ok THEN /\ pc' = "open_dst"
                  /\ handles' = handles \cup {"src"}
                  /\ err' = err
       ELSE Raise("OSError")
  /\ UNCHANGED <<out_dual, prog, src, keep_dual, dst, idx, loc, call, ret>>

\* h5py.File(out_path, "w", ...): the destination is created empty, or the
\* open raises and the source handle is released.
OpenDst ==
  /\ prog \in Transcoders /\ pc = "open_dst"
  /\ \E ok \in BOOLEAN :
       IF ok THEN /\ pc' = "root"
                  /\ handles' = handles \cup {"dst"}
                  /\ err' = err
       ELSE Raise("OSError")
  /\ dst' = EmptyFile
  /\ UNCHANGED <<out_dual, prog, src, keep_dual, idx, loc, call, ret>>

\* Lines 175-204: root where, what and how.
Root ==
  /\ prog \in Transcoders /\ pc = "root"
  /\ LET ll == root_latlonheight(src)
         dt == derive_dt(src)
         nyq == root_nyquist(src)
     IN IF dt.err # ""
        THEN /\ Raise(dt.err)
             /\ dst' = [dst EXCEPT !.groups = {"where"}, !.where = ll]
             /\ UNCHANGED <<idx, loc>>
        ELSE /\ dst' = [dst EXCEPT !.groups = {"where", "what", "how"}, !.where = ll,
                                   !.what = root_what(dt.date, dt.time, ll),
                                   !.how = [nyquist_velocity |-> nyq]]
             /\ loc' = [date |-> dt.date, time |-> dt.time, nyq |-> nyq]
             /\ idx' = 1
             /\ pc' = "loop"
             /\ UNCHANGED <<handles, err>>
  /\ UNCHANGED <<out_dual, prog, src, keep_dual, call, ret>>

\* One iteration of the while loop (lines 205-309).
Scan ==
  /\ prog \in Transcoders /\ pc = "loop"
  /\ idx \in DOMAIN src.scans
  /\ \E bad \in SlotSet \cup {"none"} :
       LET r == process_scan(src.scans[idx], loc.date, loc.time, loc.nyq, keep_dual, bad)
       IN /\ dst' = [dst EXCEPT !.scans = (idx :> r.scan) @@ @]
          /\ IF r.err # ""
             THEN Raise(r.err) /\ idx' = idx
             ELSE idx' = next_idx(idx) /\ UNCHANGED <<pc, err, handles>>
  /\ UNCHANGED <<out_dual, prog, src, keep_dual, loc, call, ret>>

\* The loop condition is false: the with block ends and the invocation returns.
Finish ==
  /\ prog \in Transcoders /\ pc = "loop"
  /\ idx \notin DOMAIN src.scans
  /\ pc' = "done"
  /\ handles' = close_on_exit(handles)
  /\ UNCHANGED <<out_dual, prog, src, keep_dual, dst, idx, loc, err, call, ret>>

InitTranscode ==
  /\ prog = "transcode"
  /\ out_dual = EmptyFile
  /\ src \in SourceVolumes
  /\ keep_dual \in BOOLEAN
  /\ pc = "start"
  /\ handles = {}
  /\ dst = EmptyFile
  /\ idx = 0
  /\ loc = NoLocals
  /\ err = ""
  /\ call = <<>>
  /\ ret = <<>>

-----------------------------------------------------------------------------
\* The splitting pipeline ukmo2bioradinput.py: main and process_pulse_type.

Pulses == <<"lp", "sp">>
TimeKeys == <<"1700", "1705">>

Leaf(v) == [kind |-> "dataset", data |-> v]
Group(attrs, children) == [kind |-> "group", attrs |-> attrs, children |-> children]

\* A group holding a leaf array and, below it, d - 1 further nested groups.
RECURSIVE DeepGroup(_)
DeepGroup(d) ==
  Group([level |-> d],
        IF d <= 1 THEN ("leaf" :> Leaf(<<d>>))
        ELSE ("leaf" :> Leaf(<<d>>)) @@ ("sub" :> DeepGroup(d - 1)))

\* Time-slot groups of the aggregated file.
SlotGroups ==
  { Group([a |-> 1, b |-> 2],
          ("x" :> Leaf(<<7>>)) @@ ("y" :> Group([c |-> 3], ("z" :> Leaf(<<8, 9>>))))),
    Group(NoAttrs, ("what" :> Group([date |-> 5], NoSlots))),
    Group([a |-> 4], NoSlots),
    DeepGroup(MaxNest) }

KeySet == {TimeKeys[k] : k \in 1..Len(TimeKeys)}
PulseSet == {Pulses[k] : k \in 1..Len(Pulses)}

\* A pulse group maps some time keys to slot groups.
PulseGroups == UNION { [K -> SlotGroups] : K \in SUBSET KeySet }

Aggregates == UNION { [P -> PulseGroups] : P \in SUBSET PulseSet }

\* copy_object that copies a group without what is below it.
copy_object_shallow(obj) ==
  IF obj.kind = "dataset" THEN Leaf(obj.data)
  ELSE Group(obj.attrs, NoSlots)

\* src.copy(obj, dst, name=name): a deep copy of the object.
RECURSIVE copy_object(_)
copy_object(obj) ==
  IF obj.kind = "dataset" THEN Leaf(obj.data)
  ELSE Group(obj.attrs, [n \in DOMAIN obj.children |-> copy_object(obj.children[n])])

\* dst is the (empty) root of the new file.
copy_group_contents_to_root(grp, dstroot) ==
  [kind |-> "group",
   attrs |-> [a \in DOMAIN grp.attrs \cup DOMAIN dstroot.attrs |->
                IF a \in DOMAIN grp.attrs THEN grp.attrs[a] ELSE dstroot.attrs[a]],
   children |-> [n \in DOMAIN grp.children \cup DOMAIN dstroot.children |->
                   IF n \in DOMAIN grp.children THEN copy_object(grp.children[n])
                   ELSE dstroot.children[n]]]

\* sorted(src[pulse].keys())
RECURSIVE sorted_keys(_, _)
sorted_keys(keys, k) ==
  IF k > Len(TimeKeys) THEN <<>>
  ELSE (IF TimeKeys[k] \in keys THEN <<TimeKeys[k]>> ELSE <<>>) \o sorted_keys(keys, k + 1)

InitSplit ==
  /\ prog = "split"
  /\ out_dual = NoSlots
  /\ src \in Aggregates
  /\ keep_dual = FALSE
  /\ pc = "start"
  /\ handles = {}
  /\ dst = NoSlots
  /\ idx = 0
  /\ loc = [keys |-> <<>>, outputs |-> <<>>]
  /\ err = ""
  /\ call = <<>>
  /\ ret = <<>>

\* main line 94: the aggregated file opens or the open raises.
SplitOpen ==
  /\ prog = "split" /\ pc = "start"
  /\ \E ok \in BOOLEAN :
       IF ok THEN /\ pc' = "pulse"
                  /\ handles' = handles \cup {"src"}
                  /\ idx' = 1
                  /\ err' = err
       ELSE Raise("OSError") /\ idx' = idx
  /\ UNCHANGED <<out_dual, prog, src, keep_dual, dst, loc, call, ret>>

\* process_pulse_type lines 45-48 for the idx-th pulse type.
SplitPulse ==
  /\ prog = "split" /\ pc = "pulse"
  /\ idx <= Len(Pulses)
  /\ IF Pulses[idx] \notin DOMAIN src
     THEN idx' = idx + 1 /\ UNCHANGED <<pc, loc>>
     ELSE /\ loc' = [loc EXCEPT !.keys = sorted_keys(DOMAIN src[Pulses[idx]], 1)]
          /\ pc' = "key"
          /\ idx' = idx
  /\ UNCHANGED <<out_dual, prog, src, keep_dual, handles, dst, err, call, ret>>

\* Line 54: the output file of the next key is created, or the open raises.
SplitOpenDst ==
  /\ prog = "split" /\ pc = "key"
  /\ loc.keys # <<>>
  /\ \E ok \in BOOLEAN :
       IF ok THEN /\ pc' = "copy"
                  /\ handles' = handles \cup {"dst"}
                  /\ dst' = (<<Pulses[idx], Head(loc.keys)>> :> Group(NoAttrs, NoSlots)) @@ dst
                  /\ err' = err
       ELSE Raise("OSError") /\ dst' = dst
  /\ UNCHANGED <<out_dual, prog, src, keep_dual, idx, loc, call, ret>>

\* Lines 55-56: the copy, then the inner with block ends; or the copy raises
\* and the exception leaves both with blocks.
SplitCopy ==
  /\ prog = "split" /\ pc = "copy"
  /\ LET out == <<Pulses[idx], Head(loc.keys)>>
     IN \E ok \in BOOLEAN :
       IF ok THEN /\ dst' = [dst EXCEPT ![out] =
                               copy_group_contents_to_root(src[Pulses[idx]][Head(loc.keys)], @)]
                  /\ handles' = handles \ {"dst"}
                  /\ loc' = [keys |-> Tail(loc.keys), outputs |-> Append(loc.outputs, out)]
                  /\ pc' = "key"
                  /\ err' = err
       ELSE Raise("OSError") /\ UNCHANGED <<dst, loc>>
  /\ UNCHANGED <<out_dual, prog, src, keep_dual, idx, call, ret>>

\* Line 57: the keys of this pulse type are done.
SplitReturn ==
  /\ prog = "split" /\ pc = "key"
  /\ loc.keys = <<>>
  /\ pc' = "pulse"
  /\ idx' = idx + 1
  /\ UNCHANGED <<out_dual, prog, src, keep_dual, handles, dst, loc, err, call, ret>>

\* Lines 98-104: the outer with block ends; exit status 2 when nothing was written.
SplitFinish ==
  /\ prog = "split" /\ pc = "pulse"
  /\ idx > Len(Pulses)
  /\ handles' = close_on_exit(handles)
  /\ pc' = "done"
  /\ err' = IF loc.outputs = <<>> THEN "SystemExit" ELSE err
  /\ UNCHANGED <<out_dual, prog, src, keep_dual, dst, idx, loc, call, ret>>

Init == InitTranscode \/ InitSplit

Next ==
  \/ OpenSrc \/ OpenDst \/ Root \/ Scan \/ Finish
  \/ SplitOpen \/ SplitPulse \/ SplitOpenDst \/ SplitCopy \/ SplitReturn \/ SplitFinish

Spec == Init /\ [][Next]_vars

-----------------------------------------------------------------------------
\* build_outputs (lines 311-317): the dual-pol pass, then the single-pol pass
\* on the same source, each a whole run of _process.

InitBuild ==
  /\ prog = "build_outputs"
  /\ out_dual = EmptyFile
  /\ src \in SourceVolumes
  /\ keep_dual = TRUE
  /\ pc = "start"
  /\ handles = {}
  /\ dst = EmptyFile
  /\ idx = 0
  /\ loc = NoLocals
  /\ err = ""
  /\ call = <<>>
  /\ ret = <<>>

\* The first call of _process has returned (an exception would have left
\* build_outputs): what it wrote stays at out_dual, and the second call
\* starts with keep_dual false and its own locals.
SecondPass ==
  /\ prog = "build_outputs" /\ pc = "done" /\ keep_dual
  /\ out_dual' = dst
  /\ keep_dual' = FALSE
  /\ pc' = "start"
  /\ dst' = EmptyFile
  /\ idx' = 0
  /\ loc' = NoLocals
  /\ UNCHANGED <<prog, src, handles, err, call, ret>>

NextBuild ==
  \/ OpenSrc \/ OpenDst \/ Root \/ Scan \/ Finish
  \/ SecondPass

SpecBuild == InitBuild /\ [][NextBuild]_vars

-----------------------------------------------------------------------------
\* The orientation resolver and the ray/bin guess as functions of their inputs.

Cells == {0, 1}
Arrays == UNION { [1..sh[1] -> [1..sh[2] -> Cells]] : sh \in Shapes }

Idle ==
  /\ out_dual = NoSlots /\ src = NoAttrs /\ keep_dual = FALSE /\ handles = {} /\ dst = NoSlots
  /\ idx = 0 /\ loc = NoLocals /\ err = "" /\ ret = <<>> /\ pc = "call"

InitShape ==
  /\ prog = "ensure_shape"
  /\ call \in [arr : Arrays, nrays : Dims, nbins : Dims]
  /\ Idle

CallEnsureShape ==
  /\ prog = "ensure_shape" /\ pc = "call"
  /\ ret' = <<ensure_shape(call.arr, call.nrays, call.nbins)>>
  /\ pc' = "return"
  /\ UNCHANGED <<out_dual, prog, src, keep_dual, handles, dst, idx, loc, err, call>>

SpecShape == InitShape /\ [][CallEnsureShape]_vars

\* Lengths an axis of the first present field may have.
AxisLens == {1, 2, 100, 359, 360, 361, 1000}

InitGuess ==
  /\ prog = "guess"
  /\ call \in [shape : AxisLens \X AxisLens,
               where : {NoAttrs, [nrays |-> 7], [nbins |-> 9], [nrays |-> 7, nbins |-> 9]}]
  /\ Idle

\* Lines 234-243 for a scan whose first present field has the raw shape
\* call.shape and whose where group has the attributes call.where.
CallGuess ==
  /\ prog = "guess" /\ pc = "call"
  /\ LET g == guess_dims(call.shape)
         wr == ensure_ds_where(call.where, <<g[1]>>, <<g[2]>>)
     IN ret' = <<[nrays |-> wr["nrays"], nbins |-> wr["nbins"]]>>
  /\ pc' = "return"
  /\ UNCHANGED <<out_dual, prog, src, keep_dual, handles, dst, idx, loc, err, call>>

SpecGuess == InitGuess /\ [][CallGuess]_vars

\* The lowest and the highest code of the stored type of field f.
CodeLo(f) == IF f.dtype = "int16" THEN I16Min ELSE 0
CodeHi(f) == IF f.dtype = "int16" THEN I16Max ELSE U16Max

\* The physical value (milli-units, rounded down) of code c of field f.
ValueOf(f, c) == f.offset + (c * Milli * f.gain[1]) \div f.gain[2]

\* Physical values around both ends and the middle of the range of field f,
\* in steps of a thousandth and in steps of half a quantization step.
CodecSamples(f) ==
  LET half == (Milli * f.gain[1]) \div (2 * f.gain[2])
      anchors == {ValueOf(f, CodeLo(f)), ValueOf(f, (CodeLo(f) + CodeHi(f)) \div 2),
                  ValueOf(f, CodeHi(f))}
  IN { a + d : a \in anchors, d \in -CodecWindow..CodecWindow }
     \cup { a + j * half : a \in anchors, j \in -CodecWindow..CodecWindow }

InitCodec ==
  /\ prog = "codec"
  /\ call \in UNION { {[f |-> i, v |-> v] : v \in CodecSamples(Fields[i])} : i \in 1..Len(Fields) }
  /\ Idle

\* The value call.v is encoded with the gain, offset and stored type of field
\* call.f, and the code is decoded with the same gain and offset.  decode is
\* applied with gain and offset both multiplied by the gain's denominator,
\* which keeps them whole numbers: back is the decoded value times gain[2].
CallCodec ==
  /\ prog = "codec" /\ pc = "call"
  /\ LET f == Fields[call.f]
         code == encode_field(f, <<<<call.v>>>>)
         back == decode(code, [gain |-> Milli * f.gain[1], offset |-> f.offset * f.gain[2]])
     IN ret' = <<[code |-> code[1][1], back |-> back[1][1]]>>
  /\ pc' = "return"
  /\ UNCHANGED <<out_dual, prog, src, keep_dual, handles, dst, idx, loc, err, call>>

SpecCodec == InitCodec /\ [][CallCodec]_vars

\* The rules in the order the resolver is described to apply them.
ResolveInOrder(arr, rays, bins) ==
  IF Shape(arr) = <<rays, bins>> THEN arr
  ELSE IF Shape(arr) = <<bins, rays>> THEN Transpose(arr)
  ELSE IF Shape(arr) = <<rays, 1>> THEN RepeatAxis1(arr, bins)
  ELSE IF Shape(arr) = <<1, rays>> THEN Transpose(RepeatAxis0(arr, bins))
  ELSE arr

\* C5: for every array and target the resolver returns what the rules give
\* when applied in the order: same shape, transpose, (rays, 1), (1, rays),
\* otherwise unchanged.
C5_RuleOrder ==
  (prog = "ensure_shape" /\ pc = "return") =>
    ret[1] = ResolveInOrder(call.arr, call.nrays, call.nbins)

\* The <<rays, bins>> the described heuristic allows for a raw shape: the
\* axis of length 360 or 361 is the ray axis, else the shorter axis.
DescribedGuesses(shape) ==
  LET a == shape[1]
      b == shape[2]
  IN IF a \in RayLens \/ b \in RayLens
     THEN (IF a \in RayLens THEN {<<a, b>>} ELSE {}) \cup (IF b \in RayLens THEN {<<b, a>>} ELSE {})
     ELSE (IF a <= b THEN {<<a, b>>} ELSE {}) \cup (IF b <= a THEN {<<b, a>>} ELSE {})

\* C7: nrays and nbins of the output where are the source's attributes where
\* it has them, and else the guess: the axis of length 360 or 361 in either
\* position, or the shorter axis, is the ray axis and the other the bin axis.
C7_RayAxisGuess ==
  (prog = "guess" /\ pc = "return") =>
    \E g \in DescribedGuesses(call.shape) :
      /\ ret[1].nrays = Get(call.where, "nrays", g[1])
      /\ ret[1].nbins = Get(call.where, "nbins", g[2])

-----------------------------------------------------------------------------
\* Properties of the transcoder and of the splitting pipeline (under Spec).

Transcoding == prog = "transcode"

\* The output scans whose loop iteration ran to its end.
CompletedScans == {i \in DOMAIN dst.scans : ~(pc = "failed" /\ i = idx)}

\* The source slot that carries a quantity.
SourceSlotOf(q) ==
  CASE q = "DBZH" -> "data1" [] q = "VRADH" -> "data5" [] q = "ZDR" -> "data8"
    [] q = "RHOHV" -> "data9" [] q = "PHIDP" -> "data10"

\* The source scan has the moment group sl with a data array in it.
HasDataArray(sds, sl) == sl \in DOMAIN sds.fields /\ sds.fields[sl].hasData

PolarimetricSlots == {"data8", "data9", "data10"}

\* C1: in reduced (single-pol) mode every output scan holds no moment slot
\* other than data1, data5 and data2, whatever the source scan holds.
C1_ReducedSlots ==
  (Transcoding /\ ~keep_dual) =>
    \A i \in DOMAIN dst.scans : DOMAIN dst.scans[i].slots \subseteq {"data1", "data5", "data2"}

\* A reduced pass has completed a scan whose source holds polarimetric fields.
C1_Witness ==
  /\ Transcoding /\ ~keep_dual /\ pc = "done"
  /\ \E i \in CompletedScans :
       /\ \A sl \in PolarimetricSlots : HasDataArray(src.scans[i], sl)
       /\ DOMAIN dst.scans[i].slots = {"data1", "data5", "data2"}

\* C2: an output slot carrying quantity Q exists only if the source scan has
\* the source slot of Q with a data array; and a scan iteration that raises
\* KeyError does so for an absent what/where group, never for an absent moment.
C2_SlotsFromSource ==
  Transcoding =>
    /\ \A i \in DOMAIN dst.scans : \A n \in DOMAIN dst.scans[i].slots :
         /\ i \in DOMAIN src.scans
         /\ HasDataArray(src.scans[i], SourceSlotOf(dst.scans[i].slots[n].quantity))
    /\ (pc = "failed" /\ err = "KeyError" /\ idx >= 1) =>
         \/ ~HasGroup(src.scans[idx], "what")
         \/ ~HasGroup(src.scans[idx], "where")
         \/ \E sl \in SlotSet : HasDataArray(src.scans[idx], sl) /\ ~src.scans[idx].fields[sl].hasWhat

\* A pass has completed a scan whose source lacks one moment group and has
\* another without a data array, and wrote the moments that are there.
C2_Witness ==
  /\ Transcoding /\ pc = "done"
  /\ \E i \in CompletedScans :
       /\ "data5" \notin DOMAIN src.scans[i].fields
       /\ \E sl \in DOMAIN src.scans[i].fields : ~src.scans[i].fields[sl].hasData
       /\ "data1" \in DOMAIN dst.scans[i].slots
       /\ "data2" \notin DOMAIN dst.scans[i].slots

DuplicateOf == [data2 |-> "data5", data3 |-> "data9", data4 |-> "data8", data6 |-> "data10"]

\* C3: in full (dual-pol) mode every completed output scan has a duplicate
\* slot exactly when it has its primary slot, and the two slots are equal in
\* code array, quantity, gain, offset, nodata and undetect.
C3_Duplicates ==
  (Transcoding /\ keep_dual) =>
    \A i \in CompletedScans : \A d \in DOMAIN DuplicateOf :
      LET sl == dst.scans[i].slots
      IN /\ (d \in DOMAIN sl) <=> (DuplicateOf[d] \in DOMAIN sl)
         /\ d \in DOMAIN sl => sl[d] = sl[DuplicateOf[d]]

\* A full pass has completed a scan with RHOHV, ZDR and VRADH but no PHIDP.
C3_Witness ==
  /\ Transcoding /\ keep_dual /\ pc = "done"
  /\ \E i \in CompletedScans :
       /\ {"data2", "data3", "data4"} \subseteq DOMAIN dst.scans[i].slots
       /\ "data6" \notin DOMAIN dst.scans[i].slots
       /\ "data10" \notin DOMAIN dst.scans[i].slots

\* The indices n such that the source holds every one of dataset1..datasetn.
ContiguousPrefix == {n \in ScanIdx : \A m \in 1..n : m \in DOMAIN src.scans}

\* C4: while the loop runs the output holds exactly dataset1..dataset(idx-1),
\* all of them source scans; when the pass returns the output holds datasetN
\* exactly for the N with dataset1..datasetN all in the source; a pass that
\* raised wrote no scan outside that set.
C4_ScanIteration ==
  Transcoding =>
    /\ pc = "loop" => /\ DOMAIN dst.scans = 1..(idx - 1)
                      /\ DOMAIN dst.scans \subseteq ContiguousPrefix
    /\ pc = "done" => DOMAIN dst.scans = ContiguousPrefix
    /\ pc = "failed" => DOMAIN dst.scans \subseteq ContiguousPrefix

\* A pass returned having written a scan and left out a source scan behind a gap.
C4_Witness ==
  /\ Transcoding /\ pc = "done"
  /\ dst.scans # NoSlots
  /\ \E n \in DOMAIN src.scans : n \notin DOMAIN dst.scans

Resolvable(r, b) == {<<r, b>>, <<b, r>>, <<r, 1>>, <<1, r>>}

PreferredRoot(k, epoch) ==
  IF HasGroup(src, "what") /\ k \in DOMAIN src.what THEN src.what[k]
  ELSE IF 1 \in DOMAIN src.scans /\ HasGroup(src.scans[1], "what")
          /\ k \in DOMAIN src.scans[1].what THEN src.scans[1].what[k]
  ELSE epoch

\* C8: the output root date and time are the source root's when it has them,
\* else dataset1's, else "19700101" / "000000".
C8_RootDateTime ==
  (Transcoding /\ "what" \in dst.groups) =>
    /\ dst.what.date = PreferredRoot("date", EpochDate)
    /\ dst.what.time = PreferredRoot("time", EpochTime)

\* C9: an invocation fails only because a container cannot be opened or an
\* array cannot be read, never for absent metadata.
C9_FailsOnlyOnIO ==
  (Transcoding /\ pc = "failed") => err = "OSError"

\* C10: when an invocation of either program has ended, normally or by an
\* error, no container handle it opened is still open.
C10_HandlesClosed ==
  pc \in {"done", "failed"} => handles = {}

\* A pass has ended by an error raised inside the dataset loop, after both
\* containers were opened and a scan group was written.
C10_Witness ==
  /\ Transcoding /\ pc = "failed" /\ dst.scans # NoSlots /\ handles = {}

-----------------------------------------------------------------------------
\* Properties of the tree flattener (under Spec).

\* The paths (sequences of names) from a group to the leaf arrays below it.
RECURSIVE LeafPaths(_)
LeafPaths(g) ==
  UNION { IF g.children[n].kind = "dataset" THEN {<<n>>}
          ELSE {<<n>> \o p : p \in LeafPaths(g.children[n])} : n \in DOMAIN g.children }

\* The object a path leads to.
RECURSIVE ObjectAt(_, _)
ObjectAt(g, p) == IF Len(p) = 1 THEN g.children[p[1]] ELSE ObjectAt(g.children[p[1]], Tail(p))

\* The time-slot group an output file was copied from.
SourceGroup(out) == src[out[1]][out[2]]

-----------------------------------------------------------------------------
\* Properties of the scalar codec (under SpecCodec).

Abs(x) == IF x < 0 THEN -x ELSE x

\* v (milli-units) lies between the values of the lowest and the highest code
\* of field f, so that its code is not clipped.
InRange(f, v) ==
  /\ CodeLo(f) * Milli * f.gain[1] <= (v - f.offset) * f.gain[2]
  /\ (v - f.offset) * f.gain[2] <= CodeHi(f) * Milli * f.gain[1]

\* C12: for each quantity's gain, offset and stored type and every value v in
\* the quantity's representable range, the value decoded from the code of v
\* differs from v by at most one quantization step (the gain).  Both sides
\* are multiplied by the gain's denominator.
C12_RoundTrip ==
  (prog = "codec" /\ pc = "return" /\ InRange(Fields[call.f], call.v)) =>
    LET f == Fields[call.f]
    IN Abs(ret[1].back - call.v * f.gain[2]) <= Milli * f.gain[1]

\* A value inside the range halfway between two codes, of a quantity with an
\* offset: the round trip is off by exactly half a step.
C12_Witness ==
  /\ prog = "codec" /\ pc = "return" /\ InRange(Fields[call.f], call.v)
  /\ Fields[call.f].offset # 0
  /\ ret[1].code > 0 /\ ret[1].code < U16Max
  /\ 2 * Abs(ret[1].back - call.v * Fields[call.f].gain[2]) = Milli * Fields[call.f].gain[1]

-----------------------------------------------------------------------------
\* Properties of the two passes of build_outputs (under SpecBuild).

\* The slots only the full output holds.
DualOnlySlots == {"data3", "data4", "data6", "data8", "data9", "data10"}

\* An output scan with the dual-only slots removed and the tag singlepol.
WithoutDualPol(sc) ==
  [sc EXCEPT !.slots = [sl \in DOMAIN sc.slots \ DualOnlySlots |-> sc.slots[sl]],
             !.how = [sc.how EXCEPT !.polarization = "singlepol"]]

BothPassesDone == prog = "build_outputs" /\ pc = "done" /\ ~keep_dual

\* The reduced output is the full output with the dual-only slots removed
\* from every scan and every scan's tag changed from dualpol to singlepol.
ReducedIsFullWithoutDualPol ==
  /\ \A i \in DOMAIN out_dual.scans : out_dual.scans[i].how.polarization = "dualpol"
  /\ dst = [out_dual EXCEPT !.scans = [i \in DOMAIN out_dual.scans |-> WithoutDualPol(out_dual.scans[i])]]

\* C13: when both passes over one source have returned, the reduced output
\* is the full output with the slots data3, data4, data6, data8, data9 and
\* data10 removed from every scan and every scan's polarization tag changed
\* from dualpol to singlepol; the root attributes, the scan groups, each
\* scan's what, where, NI and the slots data1, data5, data2 are the same;
\* and no step of either pass changes the source.
C13_ReducedEqualsFull ==
  /\ [](BothPassesDone => ReducedIsFullWithoutDualPol)
  /\ [][src' = src]_vars

\* Both passes have returned; the full output has a scan with every one of
\* the removed slots that can occur together, an NI of its own, and the
\* reduced output has data1, data5 and data2 of that scan.
C13_Witness ==
  /\ BothPassesDone
  /\ \E i \in DOMAIN out_dual.scans :
       /\ {"data3", "data4", "data8", "data9"} \subseteq DOMAIN out_dual.scans[i].slots
       /\ DOMAIN dst.scans[i].slots = {"data1", "data5", "data2"}
       /\ out_dual.scans[i].how.NI # out_dual.how.nyquist_velocity

====
